---- MODULE Spec2Model ----
(***************************************************************************)
(* Model of the BLE tag API (routers/endpoints/ble.py, gateway.py) and of  *)
(* the two tables it works on (database.py): the `tags` event log and the  *)
(* `gateways` directory.                                                   *)
(*                                                                         *)
(* Strings are tuples of one-character strings, so that lower() and        *)
(* int() are computed character by character.  A JSON value of a raw       *)
(* advertisement is a record [t, i, s]: its Python type, its integer       *)
(* payload and its string payload.  Time is counted in whole seconds; a    *)
(* naive local datetime is the number of seconds of local time, in a zone  *)
(* of fixed offset.                                                        *)
(***************************************************************************)
EXTENDS Integers, Sequences, FiniteSets, TLC

VARIABLES
    tags,       \* committed rows of table `tags`, in commit order
    gateways,   \* committed rows of table `gateways`
    now,        \* the wall clock, epoch seconds
    sess,       \* per request slot: the open database session of an ingest
    nextId,     \* the sequence behind tags.id
    aborted,    \* ids of the batches whose transaction was rolled back
    resp        \* the last response produced, with the request it answers

vars == <<tags, gateways, now, sess, nextId, aborted, resp>>

----------------------------------------------------------------------------
\* Bounds of the model

MaxRows == 3        \* rows ever flushed to `tags`
MaxBatch == 2       \* records in one ingest payload
StartNow == 9       \* wall clock when the service starts
MaxNow == 22        \* wall clock at which the model stops ticking
UtcOffset == 3      \* local time = epoch + UtcOffset (fixed-offset zone)
MaxIndex == 1       \* largest ordinal index a position is asked for

\* Program constants
PresenceWindow == 10    \* timedelta(seconds=10)
LimitMin == 1           \* Query(ge=1)
LimitMax == 1000        \* Query(le=1000)

Sessions == {1, 2}

----------------------------------------------------------------------------
\* Python values

PyNone == [t |-> "none", i |-> 0, s |-> <<>>]
PyInt(n) == [t |-> "int", i |-> n, s |-> <<>>]
PyStr(str) == [t |-> "str", i |-> 0, s |-> str]
\* an integer too large for a C time_t and for an INTEGER column
PyBig == [t |-> "big", i |-> 0, s |-> <<>>]

\* bool(v)
Truthy(v) ==
    CASE v.t = "none" -> FALSE
      [] v.t = "int" -> v.i # 0
      [] v.t = "str" -> v.s # <<>>
      [] OTHER -> TRUE

Digits == <<"0", "1", "2", "3", "4", "5", "6", "7", "8", "9">>

IsDigit(c) == \E d \in DOMAIN Digits : Digits[d] = c

DigitVal(c) == (CHOOSE d \in DOMAIN Digits : Digits[d] = c) - 1

RECURSIVE DigitsVal(_)
DigitsVal(str) ==
    IF str = <<>> THEN 0
    ELSE 10 * DigitsVal(SubSeq(str, 1, Len(str) - 1)) + DigitVal(str[Len(str)])

IsSign(c) == c \in {"-", "+"}

\* the digits of an integer literal, its sign removed
Unsigned(str) == IF str # <<>> /\ IsSign(str[1]) THEN Tail(str) ELSE str

IsIntLiteral(str) ==
    /\ Unsigned(str) # <<>>
    /\ \A k \in DOMAIN Unsigned(str) : IsDigit(Unsigned(str)[k])

\* int(v): [exc, val] where val is a Python int (PyInt or PyBig)
PyIntOf(v) ==
    CASE v.t = "int" -> [exc |-> "none", val |-> v]
      [] v.t = "big" -> [exc |-> "none", val |-> v]
      [] v.t = "str" ->
            IF IsIntLiteral(v.s)
            THEN [exc |-> "none",
                  val |-> PyInt(IF v.s[1] = "-" THEN 0 - DigitsVal(Unsigned(v.s))
                                ELSE DigitsVal(Unsigned(v.s)))]
            ELSE [exc |-> "ValueError", val |-> PyNone]
      [] OTHER -> [exc |-> "TypeError", val |-> PyNone]

LowerChar(c) ==
    CASE c = "A" -> "a"
      [] c = "B" -> "b"
      [] c = "G" -> "g"
      [] OTHER -> c

\* str.lower()
Lower(str) == [k \in DOMAIN str |-> LowerChar(str[k])]

\* datetime.fromtimestamp(ts): naive local time
FromTimestamp(ts) == ts + UtcOffset

\* datetime.timestamp() of a naive local datetime, truncated by int()
ToTimestamp(dt) == dt - UtcOffset

\* datetime.now()
DatetimeNow(clock) == FromTimestamp(clock)

Unknown == <<"u", "n", "k", "n", "o", "w", "n">>

----------------------------------------------------------------------------
\* Table `gateways`

GatewayMacs == {g.mac : g \in gateways}

\* Table `tags`: what flush() checks of one row before INSERT
ColumnsOk(row) ==
    /\ row.rssi.t = "int"                      \* rssi INTEGER NOT NULL
    /\ row.battery_level.t \in {"none", "int"} \* battery_level INTEGER NULL
    /\ row.gateway_mac \in GatewayMacs         \* FOREIGN KEY gateways.mac

----------------------------------------------------------------------------
\* POST /ingest

\* the body of the loop over payload.adv for one item:
\* "skip" (continue), "row" (append to all_tags) or "raise" (uncaught)
ingest_item(item, gateway, clock) ==
    LET mac == item.mac
        rssi == item.rssi
        battery_level == item.battery
        timestamp == item.tm
        r == PyIntOf(rssi)
        t == PyIntOf(timestamp)
        dt == IF Truthy(timestamp)
              THEN (IF t.exc \in {"ValueError", "TypeError"}
                    THEN DatetimeNow(clock)
                    ELSE FromTimestamp(t.val.i))
              ELSE FromTimestamp(clock)
    IN  IF ~Truthy(mac) \/ rssi.t = "none"
        THEN [kind |-> "skip", exc |-> "none"]
        ELSE IF mac.t # "str"
        THEN [kind |-> "raise", exc |-> "AttributeError"]
        ELSE IF r.exc \in {"ValueError", "TypeError"}
        THEN [kind |-> "skip", exc |-> "none"]
        ELSE IF Truthy(timestamp) /\ t.exc = "none" /\ t.val.t = "big"
        THEN [kind |-> "raise", exc |-> "OverflowError"]
        ELSE [kind |-> "row", exc |-> "none",
              row |-> [mac |-> Lower(mac.s), rssi |-> r.val,
                       gateway_mac |-> gateway, timestamp |-> dt,
                       battery_level |-> battery_level]]

\* the loop: [exc, all_tags]; an uncaught exception ends the request
RECURSIVE ingest_loop(_, _, _)
ingest_loop(adv, gateway, clock) ==
    IF adv = <<>> THEN [exc |-> "none", all_tags |-> <<>>]
    ELSE LET head == ingest_item(adv[1], gateway, clock)
             rest == ingest_loop(Tail(adv), gateway, clock)
         IN  CASE head.kind = "raise" -> [exc |-> head.exc, all_tags |-> <<>>]
               [] head.kind = "skip" -> rest
               [] OTHER ->
                    IF rest.exc # "none" THEN rest
                    ELSE [exc |-> "none", all_tags |-> <<head.row>> \o rest.all_tags]

\* gateway = payload.gw or "unknown"
ingest_gateway(gw) == IF Truthy(gw) THEN gw.s ELSE Unknown

\* db.flush(): the INSERT of all_tags, each row given its id; the rows carry
\* the id of their batch and its size (history, not a column)
FlushRows(all_tags, first) ==
    [k \in DOMAIN all_tags |->
        [id |-> first + k - 1,
         mac |-> all_tags[k].mac,
         rssi |-> all_tags[k].rssi.i,
         gateway_mac |-> all_tags[k].gateway_mac,
         timestamp |-> all_tags[k].timestamp,
         battery_level |-> all_tags[k].battery_level,
         batch |-> <<first, Len(all_tags)>>]]

FlushOk(all_tags) == \A k \in DOMAIN all_tags : ColumnsOk(all_tags[k])

\* fault: a commit that replaces the stored rows of the macs it brings
CommitRows_upsert(store, pending) ==
    LET Kept(row) == \A k \in DOMAIN pending : pending[k].mac # row.mac
    IN  SelectSeq(store, Kept) \o pending

\* fault: a commit that publishes the rows one INSERT at a time
CommitRows_rowwise(store, pending) == store \o <<pending[1]>>

\* session.commit(): the pending rows become visible, all at once
CommitRows(store, pending) == store \o pending

IngestResponse(gw, adv, status, inserted) ==
    [op |-> "ingest", status |-> status, inserted |-> inserted,
     gw |-> gw, adv |-> adv, at |-> now, before |-> Len(tags)]

\* the handler, up to its return; the session stays open with the flushed rows
Ingest(s, gw, adv) ==
    LET res == ingest_loop(adv, ingest_gateway(gw), now)
        n == Len(res.all_tags)
    IN  /\ sess[s].pc = "idle"
        /\ nextId + n - 1 <= MaxRows
        /\ UNCHANGED <<tags, gateways, now, aborted>>
        /\ IF res.exc # "none" \/ ~FlushOk(res.all_tags)
           THEN /\ resp' = IngestResponse(gw, adv, 500, 0)
                /\ UNCHANGED <<sess, nextId>>
           ELSE /\ resp' = IngestResponse(gw, adv, 200, n)
                /\ nextId' = nextId + n
                /\ sess' = [sess EXCEPT ![s] =
                              [pc |-> IF n = 0 THEN "idle" ELSE "flushed",
                               pending |-> FlushRows(res.all_tags, nextId)]]

\* get_session_dependency after the yield: session.commit()
Commit(s) ==
    /\ sess[s].pc = "flushed"
    /\ tags' = CommitRows(tags, sess[s].pending)
    /\ sess' = [sess EXCEPT ![s] = [pc |-> "idle", pending |-> <<>>]]
    /\ UNCHANGED <<gateways, now, nextId, aborted, resp>>

\* get_session_dependency: the commit raises (store failure), rollback
CommitFail(s) ==
    /\ sess[s].pc = "flushed"
    /\ aborted' = aborted \cup {sess[s].pending[1].batch[1]}
    /\ sess' = [sess EXCEPT ![s] = [pc |-> "idle", pending |-> <<>>]]
    /\ UNCHANGED <<tags, gateways, now, nextId, resp>>

\* one whole request served without another one in between
IngestRequest(gw, adv) ==
    LET res == ingest_loop(adv, ingest_gateway(gw), now)
        n == Len(res.all_tags)
    IN  /\ \A s \in Sessions : sess[s].pc = "idle"
        /\ nextId + n - 1 <= MaxRows
        /\ UNCHANGED <<gateways, now, aborted, sess>>
        /\ IF res.exc # "none" \/ ~FlushOk(res.all_tags)
           THEN /\ resp' = IngestResponse(gw, adv, 500, 0)
                /\ UNCHANGED <<tags, nextId>>
           ELSE /\ resp' = IngestResponse(gw, adv, 200, n)
                /\ nextId' = nextId + n
                /\ tags' = CommitRows(tags, FlushRows(res.all_tags, nextId))

----------------------------------------------------------------------------
\* calculate_tag_position

\* A float below 64 is held as its exact value in units of 2^-58, written in
\* four limbs of 16 bits, the least significant first.
LimbBase == 2^16

BigAdd(x, y) ==
    LET s1 == x[1] + y[1]
        s2 == x[2] + y[2] + (s1 \div LimbBase)
        s3 == x[3] + y[3] + (s2 \div LimbBase)
        s4 == x[4] + y[4] + (s3 \div LimbBase)
    IN  <<s1 % LimbBase, s2 % LimbBase, s3 % LimbBase, s4 % LimbBase>>

BigMulSmall(x, k) ==
    LET p1 == x[1] * k
        p2 == x[2] * k + (p1 \div LimbBase)
        p3 == x[3] * k + (p2 \div LimbBase)
        p4 == x[4] * k + (p3 \div LimbBase)
    IN  <<p1 % LimbBase, p2 % LimbBase, p3 % LimbBase, p4 % LimbBase>>

BigLeq(x, y) ==
    \/ x[4] < y[4]
    \/ x[4] = y[4] /\ x[3] < y[3]
    \/ x[4] = y[4] /\ x[3] = y[3] /\ x[2] < y[2]
    \/ x[4] = y[4] /\ x[3] = y[3] /\ x[2] = y[2] /\ x[1] <= y[1]

BitLen(v) == CHOOSE n \in 0..16 : v < 2^n /\ (n = 0 \/ v >= 2^(n - 1))

BigBitLen(x) ==
    IF x[4] # 0 THEN 48 + BitLen(x[4])
    ELSE IF x[3] # 0 THEN 32 + BitLen(x[3])
    ELSE IF x[2] # 0 THEN 16 + BitLen(x[2])
    ELSE BitLen(x[1])

\* the rounding of every float operation: 53 significant bits, to nearest,
\* ties to even
FloatRound(x) ==
    LET s == BigBitLen(x) - 53
    IN  IF s <= 0 THEN x
        ELSE LET low == x[1] % 2^s
                 down == <<x[1] - low, x[2], x[3], x[4]>>
                 up == BigAdd(down, <<2^s, 0, 0, 0>>)
                 odd == (x[1] \div 2^s) % 2 = 1
             IN  IF low > 2^(s - 1) \/ (low = 2^(s - 1) /\ odd) THEN up ELSE down

FloatAdd(x, y) == FloatRound(BigAdd(x, y))

\* an int times a float
FloatMul(k, x) == FloatRound(BigMulSmall(x, k))

\* math.pi / 180.0
RadPerDegree == <<40249, 41554, 57158, 17>>

\* 0.5
HalfRad == <<0, 0, 0, 512>>

\* int(hashlib.md5(tag_mac.encode()).hexdigest(), 16), kept modulo 1800, which
\* 200 and 360 both divide; the macs of the model are one character long
Md5Mod1800 ==
    [c \in {"0", "1", "2", "3", "4", "5", "6", "7", "8", "9",
             "a", "b", "c", "d", "e", "f", "g"} |->
        CASE c = "0" -> 850 [] c = "1" -> 211 [] c = "2" -> 12 [] c = "3" -> 883
          [] c = "4" -> 1100 [] c = "5" -> 1293 [] c = "6" -> 612
          [] c = "7" -> 1755 [] c = "8" -> 701 [] c = "9" -> 974
          [] c = "a" -> 1297 [] c = "b" -> 1543 [] c = "c" -> 43
          [] c = "d" -> 1653 [] c = "e" -> 1066 [] c = "f" -> 959
          [] c = "g" -> 53]

md5(tag_mac) == Md5Mod1800[tag_mac[1]]

\* distance_meters, in centimetres
position_distance(mac_hash) == 100 + (mac_hash % 200)

\* fault: the ordinal index counted in whole radians
position_angle_whole(mac_hash, tag_index) ==
    FloatAdd(FloatMul(mac_hash % 360, RadPerDegree), FloatMul(2 * tag_index, HalfRad))

\* angle_rad
position_angle(mac_hash, tag_index) ==
    FloatAdd(FloatMul(mac_hash % 360, RadPerDegree), FloatMul(tag_index, HalfRad))

\* the coordinates returned are gateway_lat + distance / 111000 * cos(angle)
\* and gateway_lon + distance / (111000 * cos(gateway_lat)) * sin(angle); the
\* model keeps the four quantities they are computed from
calculate_tag_position(gateway_lat, gateway_lon, tag_mac, tag_index) ==
    LET mac_hash == md5(tag_mac)
    IN  [gateway_lat |-> gateway_lat,
         gateway_lon |-> gateway_lon,
         distance_meters |-> position_distance(mac_hash),
         angle_rad |-> position_angle(mac_hash, tag_index)]

\* one call of the function
CalculateTagPosition(gateway_lat, gateway_lon, tag_mac, tag_index) ==
    /\ resp' = [op |-> "position", status |-> 200,
                gateway_lat |-> gateway_lat, gateway_lon |-> gateway_lon,
                tag_mac |-> tag_mac, tag_index |-> tag_index,
                position |-> calculate_tag_position(gateway_lat, gateway_lon,
                                                    tag_mac, tag_index)]
    /\ UNCHANGED <<tags, gateways, now, sess, nextId, aborted>>

----------------------------------------------------------------------------
\* GET /stats, GET /stats/{mac}, GET /history/{mac}

Max(S) == CHOOSE x \in S : \A y \in S : y <= x

Min2(a, b) == IF a <= b THEN a ELSE b

\* the subquery: max(timestamp) of a mac, grouped by mac
max_timestamp(mac) == Max({tags[k].timestamp : k \in {j \in DOMAIN tags : tags[j].mac = mac}})

\* fault: the boundary excluded from the window
list_presence_exclusive(timestamp, threshold) ==
    IF timestamp > threshold THEN "present" ELSE "absent"

\* presence of a row in list_all_stats
list_presence(timestamp, threshold) ==
    IF timestamp >= threshold THEN "present" ELSE "absent"

\* fault: a presence that never decays
stats_presence_always(timestamp, threshold) == "present"

\* fault: the boundary excluded from the window in one of the two handlers
stats_presence_exclusive(timestamp, threshold) ==
    IF timestamp > threshold THEN "present" ELSE "absent"

\* presence of the row in get_stats
stats_presence(timestamp, threshold) ==
    IF timestamp >= threshold THEN "present" ELSE "absent"

\* the join of list_all_stats: is row `tag` the one (or one of those) of its mac
\* that carries the maximum timestamp
IsLatest(tag) == tag.timestamp = max_timestamp(tag.mac)

list_all_stats_rows == SelectSeq(tags, IsLatest)

\* the outer join with gateways: `if gateway and gateway.geolocation`, a dict
\* with both coordinates
HasGeolocation(tag) == \E g \in gateways : g.mac = tag.gateway_mac

GeolocationOf(tag) == (CHOOSE g \in gateways : g.mac = tag.gateway_mac).geolocation

\* gateway_tag_counts[gateway_key] when row k of the result is reached
list_tag_index(rows, k) ==
    Cardinality({j \in 1..(k - 1) :
                    HasGeolocation(rows[j]) /\ rows[j].gateway_mac = rows[k].gateway_mac})

\* (tag_lat, tag_lon), None when the gateway has no geolocation
tag_position(tag, tag_index) ==
    IF HasGeolocation(tag)
    THEN calculate_tag_position(GeolocationOf(tag).latitude,
                                GeolocationOf(tag).longitude, tag.mac, tag_index)
    ELSE PyNone

list_all_stats ==
    LET threshold == DatetimeNow(now) - PresenceWindow
        rows == list_all_stats_rows
    IN  [k \in DOMAIN rows |->
            [mac |-> rows[k].mac,
             last_rssi |-> rows[k].rssi,
             gateway |-> rows[k].gateway_mac,
             last_seen |-> ToTimestamp(rows[k].timestamp),
             presence |-> list_presence(rows[k].timestamp, threshold),
             position |-> tag_position(rows[k], list_tag_index(rows, k)),
             id |-> rows[k].id]]

ListAllStats ==
    /\ resp' = [op |-> "list_all_stats", status |-> 200, stats |-> list_all_stats,
                at |-> now]
    /\ UNCHANGED <<tags, gateways, now, sess, nextId, aborted>>

\* rows of get_stats: where mac = :mac
RowsOfMac(mac) == {k \in DOMAIN tags : tags[k].mac = mac}

\* order_by(desc(timestamp)).limit(1): a row no other row of the mac is later than
FirstByTimestampDesc(mac) ==
    {k \in RowsOfMac(mac) : \A j \in RowsOfMac(mac) : tags[j].timestamp <= tags[k].timestamp}

get_stats(k) ==
    LET threshold == DatetimeNow(now) - PresenceWindow
    IN  [mac |-> tags[k].mac,
         last_rssi |-> tags[k].rssi,
         gateway |-> tags[k].gateway_mac,
         last_seen |-> ToTimestamp(tags[k].timestamp),
         presence |-> stats_presence(tags[k].timestamp, threshold),
         position |-> tag_position(tags[k], 0),
         id |-> tags[k].id]

GetStats(raw) ==
    LET mac == Lower(raw)
    IN  /\ UNCHANGED <<tags, gateways, now, sess, nextId, aborted>>
        /\ IF FirstByTimestampDesc(mac) = {}
           THEN resp' = [op |-> "get_stats", status |-> 404, mac |-> raw, at |-> now]
           ELSE \E k \in FirstByTimestampDesc(mac) :
                    resp' = [op |-> "get_stats", status |-> 200, mac |-> raw,
                             at |-> now, body |-> get_stats(k)]

\* fault: the existence check without its where clause
history_exists_any(mac) == tags # <<>>

\* check_query of get_history: is there a row of the mac
history_exists(mac) == RowsOfMac(mac) # {}

\* `if start_time:` and `if end_time:`
history_filtered(bound) == Truthy(bound)

\* the where clauses of the history query
history_where(mac, start_time, end_time) ==
    {k \in RowsOfMac(mac) :
        /\ history_filtered(start_time) => tags[k].timestamp >= FromTimestamp(start_time.i)
        /\ history_filtered(end_time) => tags[k].timestamp <= FromTimestamp(end_time.i)}

\* fault: order_by(timestamp), ascending
history_ordered_asc(first, second) == first.timestamp <= second.timestamp

\* order_by(desc(timestamp)) of two adjacent result rows
history_ordered(first, second) == first.timestamp >= second.timestamp

\* the orders in which the database may return the rows K: a row comes first
\* when it is ordered before every other one
RECURSIVE history_orders(_)
history_orders(K) ==
    IF K = {} THEN {<<>>}
    ELSE UNION {{<<k>> \o p : p \in history_orders(K \ {k})} :
                  k \in {f \in K : \A j \in K : history_ordered(tags[f], tags[j])}}

\* query.limit(limit)
history_limit(p, limit) == SubSeq(p, 1, Min2(limit, Len(p)))

history_entries(p) ==
    [a \in DOMAIN p |->
        [timestamp |-> ToTimestamp(tags[p[a]].timestamp),
         rssi |-> tags[p[a]].rssi,
         gateway |-> tags[p[a]].gateway_mac,
         id |-> tags[p[a]].id]]

HistoryResponse(raw, limit, start_time, end_time, status, entries) ==
    [op |-> "get_history", status |-> status, mac |-> raw, limit |-> limit,
     start_time |-> start_time, end_time |-> end_time, at |-> now,
     entries |-> entries, total |-> Len(entries)]

GetHistory(raw, limit, start_time, end_time) ==
    LET mac == Lower(raw)
        R(status, entries) ==
            HistoryResponse(raw, limit, start_time, end_time, status, entries)
    IN  /\ UNCHANGED <<tags, gateways, now, sess, nextId, aborted>>
        /\ IF limit < LimitMin \/ limit > LimitMax
           THEN resp' = R(422, <<>>)
           ELSE IF ~history_exists(mac)
           THEN resp' = R(404, <<>>)
           ELSE IF \/ history_filtered(start_time) /\ start_time.t = "big"
                   \/ history_filtered(end_time) /\ end_time.t = "big"
           THEN resp' = R(500, <<>>)
           ELSE \E p \in history_orders(history_where(mac, start_time, end_time)) :
                    resp' = R(200, history_entries(history_limit(p, limit)))

----------------------------------------------------------------------------
\* POST /gateway/

IsAlnum(c) == c \notin {":", "-"}

\* keep_alnum(s)
RECURSIVE keep_alnum(_)
keep_alnum(str) ==
    IF str = <<>> THEN <<>>
    ELSE (IF IsAlnum(str[1]) THEN <<str[1]>> ELSE <<>>) \o keep_alnum(Tail(str))

create_gateway(gmac, name, geolocation) ==
    LET mac == keep_alnum(Lower(gmac))
    IN  /\ UNCHANGED <<tags, now, sess, nextId, aborted>>
        /\ IF \E g \in gateways : g.mac = mac \/ g.name = name
           THEN /\ resp' = [op |-> "create_gateway", status |-> 409]
                /\ UNCHANGED gateways
           ELSE /\ resp' = [op |-> "create_gateway", status |-> 200]
                /\ gateways' = gateways \cup
                      {[mac |-> mac, name |-> name, geolocation |-> geolocation]}

\* the keys a session has written and not yet committed
UncommittedMacs(s) ==
    IF sess[s].pc = "gw_added" THEN {sess[s].pending[1].mac} ELSE {}

UncommittedNames(s) ==
    IF sess[s].pc = "gw_added" THEN {sess[s].pending[1].name}
    ELSE IF sess[s].pc = "gw_updated" THEN sess[s].pending[1].name
    ELSE {}

\* the rows a session has updated and not yet committed
UncommittedRows(s) ==
    IF sess[s].pc = "gw_updated"
           /\ (sess[s].pending[1].name # {} \/ sess[s].pending[1].geolocation # {})
    THEN {sess[s].pending[1].mac} ELSE {}

\* a write waits for the transaction that holds the row or the key it needs
write_waits(s, row, macs, names) ==
    \E o \in Sessions \ {s} :
        \/ macs \cap UncommittedMacs(o) # {}
        \/ names \cap UncommittedNames(o) # {}
        \/ row \cap UncommittedRows(o) # {}
        \/ \E g \in gateways : g.mac \in UncommittedRows(o) /\ g.name \in names
                                  /\ sess[o].pending[1].name # {}

\* fault: the names without their unique constraint
unique_violation_mac_only(row, macs, names) ==
    \E g \in gateways : g.mac \notin row /\ g.mac \in macs

\* unique=True on gateways.mac and gateways.name: the written keys are those
\* of another row
unique_violation(row, macs, names) ==
    \E g \in gateways : g.mac \notin row /\ (g.mac \in macs \/ g.name \in names)

GatewayResponse(op, status, mac, names) ==
    [op |-> op, status |-> status, mac |-> mac, names |-> names,
     before |-> gateways]

\* create_gateway up to the select: 409 when a gateway of the mac or the name
\* is found, MultipleResultsFound when two are
create_gateway_select(s, gmac, name, geolocation) ==
    LET mac == keep_alnum(Lower(gmac))
        found == {g \in gateways : g.mac = mac \/ g.name = name}
    IN  /\ sess[s].pc = "idle"
        /\ UNCHANGED <<tags, gateways, now, nextId, aborted>>
        /\ IF Cardinality(found) > 1
           THEN /\ resp' = GatewayResponse("create_gateway", 500, mac, {name})
                /\ UNCHANGED sess
           ELSE IF found # {}
           THEN /\ resp' = GatewayResponse("create_gateway", 409, mac, {name})
                /\ UNCHANGED sess
           ELSE /\ sess' = [sess EXCEPT ![s] =
                              [pc |-> "gw_add",
                               pending |-> <<[mac |-> mac, name |-> name,
                                              geolocation |-> geolocation]>>]]
                /\ UNCHANGED resp

\* create_gateway from db.flush() to its return: the INSERT
create_gateway_flush(s) ==
    LET new_gateway == sess[s].pending[1]
    IN  /\ sess[s].pc = "gw_add"
        /\ ~write_waits(s, {}, {new_gateway.mac}, {new_gateway.name})
        /\ UNCHANGED <<tags, gateways, now, nextId, aborted>>
        /\ IF unique_violation({}, {new_gateway.mac}, {new_gateway.name})
           THEN /\ resp' = GatewayResponse("create_gateway", 500,
                                           new_gateway.mac, {new_gateway.name})
                /\ sess' = [sess EXCEPT ![s] = [pc |-> "idle", pending |-> <<>>]]
           ELSE /\ resp' = GatewayResponse("create_gateway", 200,
                                           new_gateway.mac, {new_gateway.name})
                /\ sess' = [sess EXCEPT ![s].pc = "gw_added"]

\* update_gateway up to the flush: get_gateway, then the fields that differ
\* from the row read; name and geolocation are given as sets of at most one
update_gateway_select(s, gmac, name, geolocation) ==
    LET mac == keep_alnum(Lower(gmac))
        found == {g \in gateways : g.mac = mac}
    IN  /\ sess[s].pc = "idle"
        /\ UNCHANGED <<tags, gateways, now, nextId, aborted>>
        /\ IF Cardinality(found) > 1
           THEN /\ resp' = GatewayResponse("update_gateway", 500, mac, name)
                /\ UNCHANGED sess
           ELSE IF found = {}
           THEN /\ resp' = GatewayResponse("update_gateway", 404, mac, name)
                /\ UNCHANGED sess
           ELSE LET existing_gateway == CHOOSE g \in found : TRUE
                IN  /\ sess' = [sess EXCEPT ![s] =
                                  [pc |-> "gw_upd",
                                   pending |-> <<[mac |-> mac,
                                       name |-> name \ {existing_gateway.name},
                                       geolocation |->
                                           geolocation \ {existing_gateway.geolocation}]>>]]
                    /\ UNCHANGED resp

\* update_gateway from db.flush() to its return: the UPDATE, when a field changed
update_gateway_flush(s) ==
    LET changes == sess[s].pending[1]
    IN  /\ sess[s].pc = "gw_upd"
        /\ \/ changes.name = {} /\ changes.geolocation = {}
           \/ ~write_waits(s, {changes.mac}, {}, changes.name)
        /\ UNCHANGED <<tags, gateways, now, nextId, aborted>>
        /\ IF unique_violation({changes.mac}, {}, changes.name)
           THEN /\ resp' = GatewayResponse("update_gateway", 500,
                                           changes.mac, changes.name)
                /\ sess' = [sess EXCEPT ![s] = [pc |-> "idle", pending |-> <<>>]]
           ELSE /\ resp' = GatewayResponse("update_gateway", 200,
                                           changes.mac, changes.name)
                /\ sess' = [sess EXCEPT ![s].pc = "gw_updated"]

\* the row of an UPDATE once committed
updated_gateway(g, changes) ==
    [mac |-> g.mac,
     name |-> IF changes.name = {} THEN g.name
              ELSE CHOOSE n \in changes.name : TRUE,
     geolocation |-> IF changes.geolocation = {} THEN g.geolocation
                     ELSE CHOOSE x \in changes.geolocation : TRUE]

\* get_session_dependency after the yield: session.commit() of a gateway write
gateway_commit(s) ==
    /\ sess[s].pc \in {"gw_added", "gw_updated"}
    /\ gateways' =
          IF sess[s].pc = "gw_added" THEN gateways \cup {sess[s].pending[1]}
          ELSE {IF g.mac = sess[s].pending[1].mac
                THEN updated_gateway(g, sess[s].pending[1]) ELSE g : g \in gateways}
    /\ sess' = [sess EXCEPT ![s] = [pc |-> "idle", pending |-> <<>>]]
    /\ UNCHANGED <<tags, now, nextId, aborted, resp>>

\* the wall clock advances between requests
Tick ==
    /\ now < MaxNow
    /\ now' = now + 1
    /\ UNCHANGED <<tags, gateways, sess, nextId, aborted, resp>>

----------------------------------------------------------------------------
Init ==
    /\ tags = <<>>
    /\ gateways = {}
    /\ now = StartNow
    /\ sess = [s \in Sessions |-> [pc |-> "idle", pending |-> <<>>]]
    /\ nextId = 1
    /\ aborted = {}
    /\ resp = [op |-> "none", status |-> 0]

----------------------------------------------------------------------------
\* Requests

Geo == [latitude |-> 0, longitude |-> 0]

CreateGateway == create_gateway(<<"G">>, <<"n">>, Geo)

\* payload.gw: absent, the registered gateway, a gateway never registered
GwInputs == {PyNone, PyStr(<<"g">>), PyStr(<<"G">>)}

Record(mac, rssi, tm, battery) ==
    [mac |-> mac, rssi |-> rssi, tm |-> tm, battery |-> battery]

\* all the payloads of at most MaxBatch records of R
Batches(R) == UNION {[1..n -> R] : n \in 0..MaxBatch}

\* a well-formed advertisement, and the advertisements that differ from it
\* in one field
MacInputs == {PyNone, PyStr(<<>>), PyStr(<<"b">>), PyInt(7)}
RssiInputs == {PyNone, PyStr(<<"-", "7">>), PyStr(<<"x">>), PyBig}
TmInputs == {PyNone, PyInt(0), PyStr(<<"x">>), PyBig}
BatteryInputs == {PyInt(5), PyStr(<<"x">>)}

GoodRecord == Record(PyStr(<<"A">>), PyInt(0 - 6), PyInt(5), PyNone)

RawRecords ==
    {GoodRecord}
        \cup {[GoodRecord EXCEPT !.mac = v] : v \in MacInputs}
        \cup {[GoodRecord EXCEPT !.rssi = v] : v \in RssiInputs}
        \cup {[GoodRecord EXCEPT !.tm = v] : v \in TmInputs}
        \cup {[GoodRecord EXCEPT !.battery = v] : v \in BatteryInputs}

\* advertisements of two tags, at two instants, with two signal strengths
CleanRecords ==
    {Record(PyStr(<<"A">>), PyInt(0 - 6), PyInt(1), PyNone),
     Record(PyStr(<<"A">>), PyInt(0 - 7), PyInt(1), PyNone),
     Record(PyStr(<<"A">>), PyInt(0 - 6), PyInt(2), PyNone),
     Record(PyStr(<<"b">>), PyInt(0 - 6), PyInt(1), PyNone)}

\* the macs asked for: of a tag seen, in another case, and of no tag
MacQueries == {<<"A">>, <<"c">>}

LimitInputs == {1, LimitMax, LimitMax + 1}
StartInputs == {PyNone, PyInt(0), PyInt(2)}
EndInputs == {PyNone, PyInt(0), PyInt(1), PyBig}

\* the first batch a fresh store receives, of raw advertisements
IngestRaw ==
    /\ tags = <<>>
    /\ \E gw \in GwInputs, adv \in Batches(RawRecords) : IngestRequest(gw, adv)

\* a request of one well-formed advertisement
IngestOne ==
    \E r \in CleanRecords : IngestRequest(PyStr(<<"g">>), <<r>>)

IngestBegin ==
    \E s \in Sessions, gw \in {PyStr(<<"g">>), PyStr(<<"G">>)},
       adv \in Batches({GoodRecord, [GoodRecord EXCEPT !.mac = PyStr(<<"b">>)]}) :
        Ingest(s, gw, adv)

IngestCommit == \E s \in Sessions : Commit(s)

IngestRollback == \E s \in Sessions : CommitFail(s)

StatsOne == \E raw \in MacQueries : GetStats(raw)

HistoryOne ==
    \E raw \in MacQueries, limit \in LimitInputs,
       start_time \in StartInputs, end_time \in EndInputs :
        GetHistory(raw, limit, start_time, end_time)

\* latitudes and longitudes of gateways, in whole degrees
LatInputs == {0 - 23, 0, 60}

LonInputs == {0 - 46, 0}

HashedMacs == {<<c>> : c \in DOMAIN Md5Mod1800}

PositionOne ==
    \E gateway_lat \in LatInputs, gateway_lon \in LonInputs,
       tag_mac \in HashedMacs, tag_index \in 0..MaxIndex :
        CalculateTagPosition(gateway_lat, gateway_lon, tag_mac, tag_index)

GatewayMacInputs == {<<"G">>, <<"g", ":">>, <<"h">>}

GatewayNameInputs == {<<"n">>, <<"m">>}

GeoMoved == [latitude |-> 60, longitude |-> 0]

CreateGatewaySelect ==
    \E s \in Sessions, gmac \in GatewayMacInputs, name \in GatewayNameInputs :
        create_gateway_select(s, gmac, name, Geo)

CreateGatewayFlush == \E s \in Sessions : create_gateway_flush(s)

UpdateGatewaySelect ==
    \E s \in Sessions, gmac \in GatewayMacInputs,
       name \in {{}} \cup {{n} : n \in GatewayNameInputs},
       geolocation \in {{}, {GeoMoved}} :
        update_gateway_select(s, gmac, name, geolocation)

UpdateGatewayFlush == \E s \in Sessions : update_gateway_flush(s)

GatewayCommit == \E s \in Sessions : gateway_commit(s)

\* advertisements dated in the past and in the future of the service's start
DatedRecords ==
    {Record(PyStr(<<"A">>), PyInt(0 - 6), PyInt(1), PyNone),
     Record(PyStr(<<"A">>), PyInt(0 - 7), PyInt(StartNow + 2), PyNone),
     Record(PyStr(<<"b">>), PyInt(0 - 6), PyInt(1), PyNone)}

IngestDated ==
    \E r \in DatedRecords : IngestRequest(PyStr(<<"g">>), <<r>>)

\* raw advertisements into a fresh store
NextIngest == CreateGateway \/ IngestRaw \/ ListAllStats
SpecIngest == Init /\ [][NextIngest]_vars

\* concurrent ingests, each in its own transaction, and readers
NextTxn ==
    CreateGateway \/ IngestBegin \/ IngestCommit \/ IngestRollback
        \/ ListAllStats \/ StatsOne
SpecTxn == Init /\ [][NextTxn]_vars

\* the first seconds of the service
TickEarly == now < StartNow + 3 /\ Tick

\* current state of the tags as time passes
NextStats == CreateGateway \/ IngestOne \/ TickEarly \/ ListAllStats \/ StatsOne
SpecStats == Init /\ [][NextStats]_vars

\* history of the tags
NextHistory == CreateGateway \/ IngestOne \/ StatsOne \/ HistoryOne
SpecHistory == Init /\ [][NextHistory]_vars

\* every operation of the core, one request after the other
NextFrame ==
    CreateGateway \/ IngestOne \/ ListAllStats \/ StatsOne \/ HistoryOne
SpecFrame == Init /\ [][NextFrame]_vars

\* positions of tags around gateways
NextPosition == PositionOne
SpecPosition == Init /\ [][NextPosition]_vars

\* concurrent writers of the gateway directory
NextGateway ==
    CreateGatewaySelect \/ CreateGatewayFlush \/ UpdateGatewaySelect
        \/ UpdateGatewayFlush \/ GatewayCommit
SpecGateway == Init /\ [][NextGateway]_vars

\* the current state of the tags while the wall clock keeps advancing
NextDecay == CreateGateway \/ IngestDated \/ Tick \/ ListAllStats \/ StatsOne
SpecDecay == Init /\ [][NextDecay]_vars /\ WF_vars(Tick)

\* the service answering one request after the other as time passes
Next ==
    CreateGateway \/ IngestOne \/ TickEarly \/ ListAllStats \/ StatsOne \/ HistoryOne
Spec == Init /\ [][Next]_vars

----------------------------------------------------------------------------
\* Properties of POST /ingest

\* mac present and non-empty, rssi present and coercible to an integer
RecordCounts(item) ==
    /\ item.mac.t # "none"
    /\ ~(item.mac.t = "str" /\ item.mac.s = <<>>)
    /\ item.rssi.t # "none"
    /\ PyIntOf(item.rssi).exc = "none"

CountOf(adv) == Cardinality({k \in DOMAIN adv : RecordCounts(adv[k])})

\* every field of the record is of the expected type and in range
RecordWellFormed(item) ==
    /\ item.mac.t = "str" /\ item.mac.s # <<>>
    /\ item.rssi.t = "int"
    /\ item.tm.t \in {"none", "int"}
    /\ item.battery.t \in {"none", "int"}

WellFormedOf(adv) == Cardinality({k \in DOMAIN adv : RecordWellFormed(adv[k])})

\* C1: every ingest answers with the number of records that have a non-empty
\* mac and an integer-coercible rssi, and the store has grown by that number.
C1_InsertedCount ==
    resp.op = "ingest" =>
        /\ resp.status = 200
        /\ resp.inserted = CountOf(resp.adv)
        /\ Len(tags) = resp.before + CountOf(resp.adv)

\* C2: with the store accepting the batch's gateway, no record content makes
\* the ingest fail, and the well-formed records of the batch are stored.
C2_RecordsAbsorbed ==
    (resp.op = "ingest" /\ ingest_gateway(resp.gw) \in GatewayMacs) =>
        /\ resp.status = 200
        /\ resp.inserted >= WellFormedOf(resp.adv)
        /\ Len(tags) >= resp.before + WellFormedOf(resp.adv)

\* C3: a batch of well-formed records is stored under the batch's gateway
\* identifier ("unknown" when absent), registered or not, and is listed.
C3_AnyGatewayStored ==
    (/\ resp.op = "ingest"
     /\ resp.adv # <<>>
     /\ \A k \in DOMAIN resp.adv : RecordWellFormed(resp.adv[k])) =>
        /\ resp.status = 200
        /\ Len(tags) = resp.before + Len(resp.adv)
        /\ \A k \in DOMAIN tags :
              k > resp.before => tags[k].gateway_mac = ingest_gateway(resp.gw)
        /\ \E k \in DOMAIN list_all_stats :
              list_all_stats[k].gateway = ingest_gateway(resp.gw)

\* C4: the committed table holds every row of a batch or none of them; the
\* rows of an open transaction and of a rolled back one are not in it; the
\* current-state queries show committed rows only.
C4_BatchAtomic ==
    /\ \A k \in DOMAIN tags :
          Cardinality({j \in DOMAIN tags : tags[j].batch = tags[k].batch})
              = tags[k].batch[2]
    /\ \A s \in Sessions : sess[s].pc = "flushed" =>
          \A k \in DOMAIN tags : tags[k].batch # sess[s].pending[1].batch
    /\ \A k \in DOMAIN tags : tags[k].batch[1] \notin aborted
    /\ resp.op = "list_all_stats" =>
          \A e \in DOMAIN resp.stats :
              \E k \in DOMAIN tags : tags[k].id = resp.stats[e].id
    /\ (resp.op = "get_stats" /\ resp.status = 200) =>
          \E k \in DOMAIN tags : tags[k].id = resp.body.id

\* a batch of two rows is committed, another batch was rolled back, and a
\* listing has shown a row
C4_Witness ==
    /\ \E k \in DOMAIN tags : tags[k].batch[2] = 2
    /\ aborted # {}
    /\ resp.op = "list_all_stats" /\ resp.stats # <<>>

----------------------------------------------------------------------------
\* Properties of the queries

MacsStored == {tags[k].mac : k \in DOMAIN tags}

HasEvent(mac) == \E k \in DOMAIN tags : tags[k].mac = mac

\* the epoch second of the latest event of a mac
LatestSecond(mac) ==
    Max({ToTimestamp(tags[k].timestamp) : k \in {j \in DOMAIN tags : tags[j].mac = mac}})

\* C5: a listing has exactly one entry per stored mac, and the entry is that
\* of an event of the mac with the maximum timestamp.
C5_OneEntryPerMac ==
    resp.op = "list_all_stats" =>
        /\ \A mac \in MacsStored :
              Cardinality({e \in DOMAIN resp.stats : resp.stats[e].mac = mac}) = 1
        /\ \A e \in DOMAIN resp.stats :
              \E k \in DOMAIN tags :
                  /\ tags[k].mac = resp.stats[e].mac
                  /\ tags[k].rssi = resp.stats[e].last_rssi
                  /\ tags[k].gateway_mac = resp.stats[e].gateway
                  /\ ToTimestamp(tags[k].timestamp) = resp.stats[e].last_seen
                  /\ resp.stats[e].last_seen = LatestSecond(tags[k].mac)

\* a limit and time bounds the endpoint accepts and can turn into datetimes
Admissible(r) ==
    /\ r.limit >= LimitMin /\ r.limit <= LimitMax
    /\ r.start_time.t # "big" /\ r.end_time.t # "big"

StatsEntries ==
    IF resp.op = "list_all_stats" THEN {resp.stats[e] : e \in DOMAIN resp.stats}
    ELSE IF resp.op = "get_stats" /\ resp.status = 200 THEN {resp.body}
    ELSE {}

\* C7 as stated: present if and only if strictly less than 10 seconds old.
C7_PresentIffYoungerThanWindow ==
    \A e \in StatsEntries :
        e.presence = "present" <=> resp.at - e.last_seen < PresenceWindow

\* C7 as amended: present if and only if at most 10 seconds old.
C7_PresentIffWithinWindow ==
    \A e \in StatsEntries :
        /\ e.presence \in {"present", "absent"}
        /\ e.presence = "present" <=> resp.at - e.last_seen <= PresenceWindow

\* a listing holds a tag whose latest event is exactly 10 seconds old
C7_Witness ==
    /\ resp.op = "list_all_stats"
    /\ \E e \in DOMAIN resp.stats :
          /\ resp.at - resp.stats[e].last_seen = PresenceWindow
          /\ resp.stats[e].presence = "present"

\* C8: at any instant the listing and the single-mac query classify the
\* latest event of a mac alike: present from now - 10 s on (inclusive),
\* absent when older.
C8_SameBoundaryInBoth ==
    \A e \in DOMAIN list_all_stats :
        \A k \in FirstByTimestampDesc(list_all_stats[e].mac) :
            /\ get_stats(k).presence = list_all_stats[e].presence
            /\ ToTimestamp(tags[k].timestamp) >= now - PresenceWindow
                  => get_stats(k).presence = "present"
            /\ ToTimestamp(tags[k].timestamp) < now - PresenceWindow
                  => get_stats(k).presence = "absent"

\* the single-mac query has just answered for a tag last seen exactly 10 s ago
C8_Witness ==
    /\ resp.op = "get_stats" /\ resp.status = 200 /\ resp.at = now
    /\ resp.body.last_seen = now - PresenceWindow
    /\ \E e \in DOMAIN list_all_stats :
          /\ list_all_stats[e].mac = resp.body.mac
          /\ list_all_stats[e].presence = "present"

\* C9 as stated: the entries of a history are in strictly descending order.
C9_StrictlyDescending ==
    (resp.op = "get_history" /\ resp.status = 200) =>
        \A e \in DOMAIN resp.entries :
            e < Len(resp.entries) =>
                resp.entries[e].timestamp > resp.entries[e + 1].timestamp

\* C9 as amended: no entry of a history is older than the entry after it.
C9_Descending ==
    (resp.op = "get_history" /\ resp.status = 200) =>
        \A e \in DOMAIN resp.entries :
            e < Len(resp.entries) =>
                resp.entries[e].timestamp >= resp.entries[e + 1].timestamp

\* a history of events of different seconds, and of two of the same second
C9_Witness ==
    /\ resp.op = "get_history" /\ resp.status = 200
    /\ Len(resp.entries) = 3
    /\ resp.entries[1].timestamp > resp.entries[2].timestamp
    /\ resp.entries[2].timestamp = resp.entries[3].timestamp

\* the rows of a mac within the bounds supplied, a bound of 0 included
InWindow(mac, start_time, end_time) ==
    {k \in DOMAIN tags :
        /\ tags[k].mac = mac
        /\ start_time.t # "none" => ToTimestamp(tags[k].timestamp) >= start_time.i
        /\ end_time.t # "none" => ToTimestamp(tags[k].timestamp) <= end_time.i}

\* C10: a history is the min(limit, n) most recent of the n events of the
\* mac within the bounds supplied; its size is at most limit and 1000, and
\* total is its size.
C10_WindowAndLimit ==
    (resp.op = "get_history" /\ resp.status = 200) =>
        LET W == InWindow(Lower(resp.mac), resp.start_time, resp.end_time)
            ids == {resp.entries[e].id : e \in DOMAIN resp.entries}
        IN  /\ Len(resp.entries) = Min2(resp.limit, Cardinality(W))
            /\ Cardinality(ids) = Len(resp.entries)
            /\ \A e \in DOMAIN resp.entries :
                  \E k \in W :
                      /\ tags[k].id = resp.entries[e].id
                      /\ tags[k].rssi = resp.entries[e].rssi
                      /\ ToTimestamp(tags[k].timestamp) = resp.entries[e].timestamp
            /\ \A k \in W : tags[k].id \notin ids =>
                  \A e \in DOMAIN resp.entries :
                      resp.entries[e].timestamp >= ToTimestamp(tags[k].timestamp)
            /\ Len(resp.entries) <= resp.limit
            /\ Len(resp.entries) <= LimitMax
            /\ resp.total = Len(resp.entries)

----------------------------------------------------------------------------
\* Properties of the stored events

\* every field but tm is of the expected type and in range
RecordValidated(item) ==
    /\ item.mac.t = "str" /\ item.mac.s # <<>>
    /\ item.rssi.t = "int"
    /\ item.battery.t \in {"none", "int"}

\* tm present and coercible to an integer
TmCoercible(tm) == tm.t # "none" /\ PyIntOf(tm).exc = "none"

\* C11: each validated record is stored, with its tm as epoch seconds when
\* tm is present and coercible to an integer (0 included), and with the
\* instant of the ingest otherwise.
C11_TimestampResolved ==
    (/\ resp.op = "ingest"
     /\ ingest_gateway(resp.gw) \in GatewayMacs
     /\ \A k \in DOMAIN resp.adv : RecordValidated(resp.adv[k])) =>
        /\ resp.status = 200
        /\ Len(tags) = resp.before + Len(resp.adv)
        /\ \A k \in DOMAIN resp.adv :
              LET tm == resp.adv[k].tm
                  stored == ToTimestamp(tags[resp.before + k].timestamp)
              IN  /\ (TmCoercible(tm) /\ tm.t # "big") => stored = PyIntOf(tm).val.i
                  /\ ~TmCoercible(tm) => stored = resp.at

\* spellings of the macs that differ in the case of their letters only
MacSpellings == {<<"A">>, <<"a">>, <<"B">>, <<"b">>}

\* C12: stored macs are lowercase, and after an ingest of one record
\* {mac M, rssi r, tm t} under gateway gw, the current state and the history
\* asked for under any spelling of M find the event, the current state
\* reporting r, gw and t when the event is the latest of its mac.
C12_CaseInsensitive ==
    /\ \A k \in DOMAIN tags : Lower(tags[k].mac) = tags[k].mac
    /\ (/\ resp.op = "ingest"
        /\ Len(resp.adv) = 1
        /\ RecordValidated(resp.adv[1])
        /\ TmCoercible(resp.adv[1].tm) /\ resp.adv[1].tm.t # "big") =>
          \A V \in MacSpellings :
              Lower(V) = Lower(resp.adv[1].mac.s) =>
                  /\ history_exists(Lower(V))
                  /\ FirstByTimestampDesc(Lower(V)) # {}
                  /\ \A k \in FirstByTimestampDesc(Lower(V)) :
                        tags[k].id = nextId - 1 =>
                            /\ get_stats(k).last_rssi = resp.adv[1].rssi.i
                            /\ get_stats(k).gateway = ingest_gateway(resp.gw)
                            /\ get_stats(k).last_seen = PyIntOf(resp.adv[1].tm).val.i

Queries == {"list_all_stats", "get_stats", "get_history"}

\* C13: every step keeps each stored event where it is, with its mac, rssi,
\* gateway and timestamp; a step that answers an ingest or a query leaves the
\* gateways alone, and a step that answers a query changes nothing else.
C13_Frame ==
    [][/\ \A k \in DOMAIN tags : k \in DOMAIN tags' /\ tags'[k] = tags[k]
       /\ (resp' # resp /\ resp'.op \in Queries \cup {"ingest"}) =>
              gateways' = gateways
       /\ (resp' # resp /\ resp'.op \in Queries) =>
              UNCHANGED <<tags, gateways, now, sess, nextId, aborted>>]_vars

\* two events of one mac stored by different ingests, then a history answered
C13_Witness ==
    /\ resp.op = "get_history" /\ resp.status = 200
    /\ gateways # {}
    /\ \E j, k \in DOMAIN tags :
          /\ tags[j].mac = tags[k].mac
          /\ tags[j].batch # tags[k].batch

----------------------------------------------------------------------------
\* Properties of the positions

\* the angle of the same gateway and mac under another ordinal index
AngleAt(tag_index) ==
    calculate_tag_position(resp.gateway_lat, resp.gateway_lon,
                           resp.tag_mac, tag_index).angle_rad

DistanceAt(tag_index) ==
    calculate_tag_position(resp.gateway_lat, resp.gateway_lon,
                           resp.tag_mac, tag_index).distance_meters

\* 2^-51, the largest rounding of a sum below 8
AngleRounding == <<128, 0, 0, 0>>

\* C14 as stated: the same inputs give the same output, ordinal indices 0 and
\* 1 give the same distance 1.0 + (hash mod 200)/100 within [1.0, 3.0), and
\* angles that differ by 0.5 radians exactly.
C14_AngleOffsetExact ==
    resp.op = "position" =>
        /\ resp.position = calculate_tag_position(resp.gateway_lat, resp.gateway_lon,
                                                  resp.tag_mac, resp.tag_index)
        /\ DistanceAt(0) = DistanceAt(1)
        /\ DistanceAt(0) = 100 + (md5(resp.tag_mac) % 200)
        /\ 100 <= DistanceAt(0) /\ DistanceAt(0) < 300
        /\ AngleAt(1) = BigAdd(AngleAt(0), HalfRad)

\* C14 amended: as above, with angles that differ by 0.5 radians up to the
\* rounding of the float sum, which is at most 2^-51 radians.
C14_AngleOffsetRounded ==
    resp.op = "position" =>
        /\ resp.position = calculate_tag_position(resp.gateway_lat, resp.gateway_lon,
                                                  resp.tag_mac, resp.tag_index)
        /\ DistanceAt(0) = DistanceAt(1)
        /\ DistanceAt(0) = 100 + (md5(resp.tag_mac) % 200)
        /\ 100 <= DistanceAt(0) /\ DistanceAt(0) < 300
        /\ BigLeq(BigAdd(AngleAt(0), HalfRad), BigAdd(AngleAt(1), AngleRounding))
        /\ BigLeq(AngleAt(1), BigAdd(BigAdd(AngleAt(0), HalfRad), AngleRounding))

\* a position asked for ordinal index 1 whose angle is not the exact sum
C14_Witness ==
    /\ resp.op = "position"
    /\ resp.tag_index = 1
    /\ resp.position.angle_rad # BigAdd(AngleAt(0), HalfRad)
    /\ resp.position.distance_meters > 150

----------------------------------------------------------------------------
\* Properties of the gateway directory

GatewayOps == {"create_gateway", "update_gateway"}

\* C15: no two gateways share a mac or a name; a create whose mac or name is
\* that of a gateway of the directory, and an update to a name another gateway
\* bears, is refused; and the directory changes only when a write that was
\* accepted commits.
C15_UniqueMacAndName ==
    /\ [](\A g, h \in gateways : g # h => g.mac # h.mac /\ g.name # h.name)
    /\ []((/\ resp.op \in GatewayOps
           /\ \E g \in resp.before :
                 \/ resp.op = "create_gateway"
                        /\ (g.mac = resp.mac \/ g.name \in resp.names)
                 \/ resp.op = "update_gateway"
                        /\ g.mac # resp.mac /\ g.name \in resp.names)
              => resp.status # 200)
    /\ [][gateways' # gateways =>
              \E s \in Sessions :
                  /\ sess[s].pc \in {"gw_added", "gw_updated"}
                  /\ sess'[s].pc = "idle"
                  /\ ~unique_violation(IF sess[s].pc = "gw_added" THEN {}
                                       ELSE {sess[s].pending[1].mac},
                                       UncommittedMacs(s), UncommittedNames(s))]_vars

\* two gateways registered, and a rename to the name of the other refused
C15_Witness ==
    /\ Cardinality(gateways) = 2
    /\ resp.op = "update_gateway" /\ resp.status = 500
    /\ resp.before = gateways

----------------------------------------------------------------------------
\* Properties relating the two views of the current state

\* C16: when the current state of a mac has just been answered, it agrees with
\* every entry of that mac in the listing of the same instant on last_rssi,
\* gateway, last_seen and presence, and has a position exactly when the entry
\* has one; the position differs at most in the ordinal index of its angle.
C16_StatsAgreeWithList ==
    (resp.op = "get_stats" /\ resp.status = 200 /\ resp.at = now) =>
        \A k \in DOMAIN list_all_stats :
            LET entry == list_all_stats[k]
            IN  entry.mac = resp.body.mac =>
                    /\ entry.last_rssi = resp.body.last_rssi
                    /\ entry.gateway = resp.body.gateway
                    /\ entry.last_seen = resp.body.last_seen
                    /\ entry.presence = resp.body.presence
                    /\ (entry.position = PyNone) = (resp.body.position = PyNone)
                    /\ entry.position # PyNone =>
                          /\ entry.position.distance_meters
                                 = resp.body.position.distance_meters
                          /\ entry.position.gateway_lat = resp.body.position.gateway_lat
                          /\ entry.position.gateway_lon = resp.body.position.gateway_lon

----------------------------------------------------------------------------
\* Properties of presence as time passes

EventsOf(mac) == Cardinality({k \in DOMAIN tags : tags[k].mac = mac})

\* what the single-mac query would answer for the mac now, the position apart
CurrentStates(mac) ==
    {[last_rssi |-> tags[k].rssi,
      gateway |-> tags[k].gateway_mac,
      last_seen |-> ToTimestamp(tags[k].timestamp),
      presence |-> stats_presence(tags[k].timestamp,
                                  DatetimeNow(now) - PresenceWindow)] :
        k \in FirstByTimestampDesc(mac)}

IsPresent(mac) == \E body \in CurrentStates(mac) : body.presence = "present"

Expired(mac) == HasEvent(mac) /\ now - LatestSecond(mac) > PresenceWindow

\* the event a step has appended
Appended(mac) ==
    /\ Len(tags') = Len(tags) + 1
    /\ tags'[Len(tags')].mac = mac

\* C17: (a) a query answered more than 10 s after the latest event of a mac
\* classifies it absent; (b) unless a further event of the mac is ingested,
\* that point is reached, also when the latest event is dated in the future;
\* (c) an absent mac becomes present only by the ingest of an event dated
\* within 10 s of the clock; (d) the ingest of an event older than the latest
\* one changes neither the presence nor the current state of the mac.
C17_PresenceDecays ==
    /\ [](\A e \in StatsEntries :
              resp.at - e.last_seen > PresenceWindow => e.presence = "absent")
    /\ \A mac \in {<<"a">>, <<"b">>} : \A c \in 1..MaxRows :
          (EventsOf(mac) = c) ~>
              (EventsOf(mac) > c \/ (Expired(mac) /\ ~IsPresent(mac)))
    /\ [][\A mac \in MacsStored :
              (~IsPresent(mac) /\ IsPresent(mac)') =>
                  /\ Appended(mac)
                  /\ now' - ToTimestamp(tags'[Len(tags')].timestamp)
                         <= PresenceWindow]_vars
    /\ [][\A mac \in MacsStored :
              (Appended(mac)
                  /\ ToTimestamp(tags'[Len(tags')].timestamp) < LatestSecond(mac)) =>
                  CurrentStates(mac)' = CurrentStates(mac)]_vars

\* a tag whose latest event was dated in the future has been answered absent,
\* with an older event of it ingested after the latest one
C17_Witness ==
    /\ resp.op = "get_stats" /\ resp.status = 200
    /\ resp.body.presence = "absent"
    /\ resp.body.last_seen = StartNow + 2
    /\ \E k \in DOMAIN tags :
          /\ tags[k].mac = resp.body.mac
          /\ tags[k].id > resp.body.id
          /\ ToTimestamp(tags[k].timestamp) < resp.body.last_seen

====
